---- MODULE Spec2Model ----
(***************************************************************************)
(* Model of bud.py: a single-threaded HTTP JSON API over a SQLite store    *)
(* with three tables (months, bills, money_ins).  One action per request   *)
(* handler; the store is the state.                                        *)
(*                                                                         *)
(* Text values.  A year-month key is a string of digits and dashes.  It is *)
(* represented by the sequence of its dash-separated parts, each part a    *)
(* sequence of decimal digits: "2024-01" is << <<2,0,2,4>>, <<0,1>> >>,    *)
(* "2024-" is << <<2,0,2,4>>, <<>> >>, the empty string is << <<>> >>.     *)
(* A key absent from the JSON body (None) is << >>.                        *)
(*                                                                         *)
(* JSON values of the body are records [t, n, s]: t the JSON type, n the   *)
(* number it denotes (for a number, a boolean, or a string holding a       *)
(* number), s the text (for a string).                                     *)
(*                                                                         *)
(* A handler is a function of the store and the request: <Handler>Result   *)
(* gives the store after the request and the response; the action applies  *)
(* it and records the route and the status in `last`.                      *)
(***************************************************************************)
EXTENDS Integers, Sequences, FiniteSets, TLC

VARIABLES schema, months, bills, money_ins, seq, last

vars == <<schema, months, bills, money_ins, seq, last>>

----------------------------------------------------------------------------
(* Bounds of the exploration *)

MaxMonthId == 2
MaxBillId == 1
MaxMoneyInId == 1

----------------------------------------------------------------------------
(* Text and JSON values *)

Y2023 == <<2, 0, 2, 3>>
Y2024 == <<2, 0, 2, 4>>

NoneYm == << >>
EmptyYm == << <<>> >>

\* the keys requests are issued with: "2023-12", "2024-1", "2024-01",
\* "2024-02", the malformed "2024-" and None
YmInputs ==
  { <<Y2023, <<1, 2>>>>, <<Y2024, <<1>>>>, <<Y2024, <<0, 1>>>>,
    <<Y2024, <<0, 2>>>>, <<Y2024, <<>>>>, NoneYm }

JNull == [t |-> "null", n |-> 0, s |-> ""]
JNum(k) == [t |-> "num", n |-> k, s |-> ""]
JNumStr(k) == [t |-> "numstr", n |-> k, s |-> ""]
JStr(x) == [t |-> "str", n |-> 0, s |-> x]
JBool(b) == [t |-> "bool", n |-> IF b THEN 1 ELSE 0, s |-> ""]
JList == [t |-> "list", n |-> 0, s |-> ""]

\* Python truthiness of a JSON value (a non-empty list is modelled)
Truthy(v) ==
  CASE v.t = "null" -> FALSE
    [] v.t = "num" -> v.n # 0
    [] v.t = "bool" -> v.n = 1
    [] v.t = "str" -> v.s # ""
    [] OTHER -> TRUE

\* Python float(v): a number, a boolean and a numeric string convert; any
\* other string raises ValueError; None and a list raise TypeError
PyFloat(v) ==
  CASE v.t \in {"num", "bool", "numstr"} -> [exc |-> "none", val |-> v.n]
    [] v.t = "str" -> [exc |-> "ValueError", val |-> 0]
    [] OTHER -> [exc |-> "TypeError", val |-> 0]

\* sqlite3 binds None, numbers and text; any other Python object fails
Bindable(v) == v.t # "list"

----------------------------------------------------------------------------
(* Conversions of ensure_month *)

RECURSIVE DigitsValue(_)
\* the number a non-empty digit string denotes
DigitsValue(ds) ==
  IF ds = <<>> THEN 0
  ELSE 10 * DigitsValue(SubSeq(ds, 1, Len(ds) - 1)) + ds[Len(ds)]

\* int(text): the empty string raises ValueError
PyInt(ds) ==
  IF ds = <<>> THEN [exc |-> "ValueError", val |-> 0]
  ELSE [exc |-> "none", val |-> DigitsValue(ds)]

RECURSIVE PyStr(_)
\* str(n) for n >= 0: decimal digits, no padding
PyStr(n) == IF n < 10 THEN <<n>> ELSE PyStr(n \div 10) \o <<n % 10>>

\* format(n, "02d") for n >= 0: at least two digits, zero-padded
Format02d(n) == IF n < 10 THEN <<0, n>> ELSE PyStr(n)

\* year, month = map(int, ym.split('-')): needs exactly two integer parts
SplitYm(ym) ==
  IF Len(ym) # 2 THEN [exc |-> "ValueError", year |-> 0, month |-> 0]
  ELSE IF PyInt(ym[1]).exc # "none" \/ PyInt(ym[2]).exc # "none"
       THEN [exc |-> "ValueError", year |-> 0, month |-> 0]
       ELSE [exc |-> "none", year |-> PyInt(ym[1]).val, month |-> PyInt(ym[2]).val]

\* the key ensure_month looks the previous month up under
PrevYm(year, month) ==
  IF month = 1 THEN <<PyStr(year - 1), <<1, 2>>>>
  ELSE <<PyStr(year), Format02d(month - 1)>>

----------------------------------------------------------------------------
(* The store *)

InitDbMonthsCols == {"id", "ym"}
BalanceCols == {"opening_balance", "closing_balance"}
BillsCols == {"id", "month_id", "name", "amount", "date", "quarterly"}
MoneyInsCols == {"id", "month_id", "source", "amount", "date"}

\* CREATE TABLE IF NOT EXISTS: an absent table (no columns) is created with
\* the given columns, an existing one is left as it is
CreateTableIfNotExists(existing, cols) == IF existing = {} THEN cols ELSE existing

\* init_db: the three CREATE TABLE IF NOT EXISTS statements
InitDbSchema(sch) ==
  [months |-> CreateTableIfNotExists(sch.months, InitDbMonthsCols),
   bills |-> CreateTableIfNotExists(sch.bills, BillsCols),
   money_ins |-> CreateTableIfNotExists(sch.money_ins, MoneyInsCols)]

\* the store file before the program starts: absent, or a file whose months
\* table already carries the two balance columns the handlers read and write
NoFile == [months |-> {}, bills |-> {}, money_ins |-> {}]
FileWithBalances ==
  [months |-> InitDbMonthsCols \cup BalanceCols, bills |-> BillsCols,
   money_ins |-> MoneyInsCols]

\* a statement naming a column the table lacks raises OperationalError
HasCols(table, cols) == cols \subseteq table

\* variant: the connection leaves foreign keys off (SQLite's default)
ForeignKeysOff == FALSE

\* PRAGMA foreign_keys = ON, set on every connection
ForeignKeysOn == TRUE

MonthByYm(ms, ym) == {r \in ms : r.ym = ym}

\* DELETE FROM months WHERE id = ?, with ON DELETE CASCADE on both children
CascadeKeep(rows, mid) ==
  IF ForeignKeysOn THEN {r \in rows : r.month_id # mid} ELSE rows

\* variant: with no row under the previous key, carry the closing balance of
\* the most recently created month
CarriedBalanceLatest(ms, prev) ==
  IF ms = {} THEN 0
  ELSE IF MonthByYm(ms, prev) = {}
       THEN (CHOOSE r \in ms : \A t \in ms : t.id <= r.id).closing_balance
       ELSE (CHOOSE r \in MonthByYm(ms, prev) : TRUE).closing_balance

\* the value a new month opens and closes with: the closing balance stored
\* under the previous key (`or 0` for a NULL), 0 if there is no such row
CarriedBalance(ms, prev) ==
  IF MonthByYm(ms, prev) = {} THEN 0
  ELSE (CHOOSE r \in MonthByYm(ms, prev) : TRUE).closing_balance

\* variant: an existing row is refreshed from the previous month (upsert)
EnsureMonthRefresh(sch, ms, sq, ym) ==
  IF ~HasCols(sch.months, {"id", "ym"} \cup BalanceCols)
  THEN [exc |-> "OperationalError", months |-> ms, seq |-> sq, id |-> 0, created |-> FALSE]
  ELSE IF SplitYm(ym).exc # "none"
  THEN [exc |-> SplitYm(ym).exc, months |-> ms, seq |-> sq, id |-> 0, created |-> FALSE]
  ELSE LET prev == PrevYm(SplitYm(ym).year, SplitYm(ym).month)
           bal == CarriedBalance(ms, prev)
           old == MonthByYm(ms, ym)
           nid == IF old = {} THEN sq + 1 ELSE (CHOOSE r \in old : TRUE).id
           row == [id |-> nid, ym |-> ym, opening_balance |-> bal,
                   closing_balance |-> bal]
       IN [exc |-> "none", months |-> (ms \ old) \cup {row},
           seq |-> IF old = {} THEN sq + 1 ELSE sq, id |-> nid, created |-> old = {}]

\* variant: the row is inserted without looking for a stored one first
EnsureMonthAlwaysInsert(sch, ms, sq, ym) ==
  IF ~HasCols(sch.months, {"id", "ym"} \cup BalanceCols)
  THEN [exc |-> "OperationalError", months |-> ms, seq |-> sq, id |-> 0, created |-> FALSE]
  ELSE IF SplitYm(ym).exc # "none"
  THEN [exc |-> SplitYm(ym).exc, months |-> ms, seq |-> sq, id |-> 0, created |-> FALSE]
  ELSE LET prev == PrevYm(SplitYm(ym).year, SplitYm(ym).month)
           bal == CarriedBalance(ms, prev)
           row == [id |-> sq + 1, ym |-> ym, opening_balance |-> bal,
                   closing_balance |-> bal]
       IN [exc |-> "none", months |-> ms \cup {row}, seq |-> sq + 1,
           id |-> sq + 1, created |-> TRUE]

\* ensure_month(conn, ym): the outcome, the month table and sequence after it
EnsureMonth(sch, ms, sq, ym) ==
  IF ~HasCols(sch.months, {"id", "ym"} \cup BalanceCols)
  THEN [exc |-> "OperationalError", months |-> ms, seq |-> sq, id |-> 0, created |-> FALSE]
  ELSE IF MonthByYm(ms, ym) # {}
  THEN [exc |-> "none", months |-> ms, seq |-> sq,
        id |-> (CHOOSE r \in MonthByYm(ms, ym) : TRUE).id, created |-> FALSE]
  ELSE IF SplitYm(ym).exc # "none"
  THEN [exc |-> SplitYm(ym).exc, months |-> ms, seq |-> sq, id |-> 0, created |-> FALSE]
  ELSE LET prev == PrevYm(SplitYm(ym).year, SplitYm(ym).month)
           bal == CarriedBalance(ms, prev)
           row == [id |-> sq + 1, ym |-> ym, opening_balance |-> bal,
                   closing_balance |-> bal]
       IN [exc |-> "none", months |-> ms \cup {row}, seq |-> sq + 1,
           id |-> sq + 1, created |-> TRUE]

----------------------------------------------------------------------------
(* Requests and responses *)

\* values the fields of a request body take: valid ones, a missing or
\* empty one, and ones of a wrong type
Names == {JStr("Rent"), JStr(""), JList}
Amounts == {JNull, JNum(1200), JNumStr(75), JStr("abc"), JBool(TRUE), JList}
ClosingBalances == {JNull, JNum(0), JNum(-1200), JStr("abc"), JList}
Dates == {""}
Segments == {<<>>, <<1>>, <<2>>}
Ids == 0..2

\* the bodies the requests are issued with: the well-formed bodies, and
\* bodies with the name or the amount missing or of a wrong type
BillBodies ==
  [ym : YmInputs, name : {JStr("Rent")}, amount : {JNum(1200)},
   date : Dates, quarterly : BOOLEAN]
  \cup [ym : YmInputs, name : {JStr(""), JList}, amount : {JNum(1200)},
        date : Dates, quarterly : {FALSE}]
  \cup [ym : {<<Y2024, <<0, 1>>>>}, name : {JStr("Rent")},
        amount : {JNull, JStr("abc"), JList}, date : Dates, quarterly : {FALSE}]

BillUpdates ==
  [id : Ids, name : {JStr("Rent")}, amount : {JNum(1200)},
   date : Dates, quarterly : BOOLEAN]
  \cup [id : {1}, name : {JStr(""), JList}, amount : {JNum(1200)},
        date : Dates, quarterly : {FALSE}]
  \cup [id : {1}, name : {JStr("Rent")},
        amount : {JNull, JStr("abc"), JList}, date : Dates, quarterly : {FALSE}]

MoneyInBodies ==
  [ym : YmInputs, source : {JStr("Rent")}, amount : {JNum(1200), JNumStr(75)},
   date : Dates]
  \cup [ym : YmInputs, source : {JStr(""), JList}, amount : {JNum(1200)},
        date : Dates]
  \cup [ym : {<<Y2024, <<0, 1>>>>}, source : {JStr("Rent")},
        amount : {JNull, JStr("abc"), JList}, date : Dates]

MoneyInUpdates ==
  [id : Ids, source : {JStr("Rent")}, amount : {JNum(1200), JNumStr(75)},
   date : Dates]
  \cup [id : {1}, source : {JStr(""), JList}, amount : {JNum(1200)}, date : Dates]
  \cup [id : {1}, source : {JStr("Rent")}, amount : {JNull, JStr("abc"), JList},
        date : Dates]

\* the outcome of a request: the tables and sequences after it, and what
\* _send_json(obj, status) sends: the status, the identifier the body
\* carries (0 if none) and the rows of a list body
Result(ms, bs, mis, sq, status, id, body) ==
  [months |-> ms, bills |-> bs, money_ins |-> mis, seq |-> sq,
   status |-> status, id |-> id, body |-> body]

\* a response that leaves the store as it is
Only(status, id, body) == Result(months, bills, money_ins, seq, status, id, body)

Apply(route, r) ==
  /\ months' = r.months
  /\ bills' = r.bills
  /\ money_ins' = r.money_ins
  /\ seq' = r.seq
  /\ last' = [route |-> route, status |-> r.status]
  /\ UNCHANGED schema

\* `not ym`: the key is missing or the empty string
Falsy(ym) == ym = NoneYm \/ ym = EmptyYm

RECURSIVE SortByIdDescending(_)
\* variant: ORDER BY id DESC
SortByIdDescending(rows) ==
  IF rows = {} THEN <<>>
  ELSE LET r == CHOOSE x \in rows : \A y \in rows : x.id >= y.id
       IN <<r>> \o SortByIdDescending(rows \ {r})

RECURSIVE SortById(_)
\* ORDER BY id
SortById(rows) ==
  IF rows = {} THEN <<>>
  ELSE LET r == CHOOSE x \in rows : \A y \in rows : x.id <= y.id
       IN <<r>> \o SortById(rows \ {r})

\* the text of a key as character codes: "-" sorts before every digit
RECURSIVE YmChars(_)
YmChars(ym) ==
  IF ym = <<>> THEN <<>>
  ELSE IF Len(ym) = 1 THEN [i \in 1..Len(ym[1]) |-> ym[1][i] + 1]
  ELSE [i \in 1..Len(ym[1]) |-> ym[1][i] + 1] \o <<0>> \o YmChars(Tail(ym))

RECURSIVE TextLess(_, _)
TextLess(a, b) ==
  IF b = <<>> THEN FALSE
  ELSE IF a = <<>> THEN TRUE
  ELSE IF a[1] # b[1] THEN a[1] < b[1]
  ELSE TextLess(Tail(a), Tail(b))

RECURSIVE SortByYm(_)
\* ORDER BY ym
SortByYm(rows) ==
  IF rows = {} THEN <<>>
  ELSE LET r == CHOOSE x \in rows :
                  \A y \in rows \ {x} : TextLess(YmChars(x.ym), YmChars(y.ym))
       IN <<r>> \o SortByYm(rows \ {r})

\* SELECT ... FROM bills b JOIN months m ON m.id = b.month_id WHERE m.ym = ?
JoinOnYm(rows, ms, ym) == {r \in rows : \E m \in ms : m.id = r.month_id /\ m.ym = ym}

BillsBody(bs, ms, ym) ==
  LET rows == SortById(JoinOnYm(bs, ms, ym))
  IN [i \in 1..Len(rows) |->
        [id |-> rows[i].id, name |-> rows[i].name, amount |-> rows[i].amount,
         date |-> rows[i].date, quarterly |-> rows[i].quarterly = 1]]

MoneyInsBody(mis, ms, ym) ==
  LET rows == SortById(JoinOnYm(mis, ms, ym))
  IN [i \in 1..Len(rows) |->
        [id |-> rows[i].id, source |-> rows[i].source, amount |-> rows[i].amount,
         date |-> rows[i].date]]

MonthsBody(ms) ==
  LET rows == SortByYm(ms)
  IN [i \in 1..Len(rows) |-> [id |-> rows[i].id, ym |-> rows[i].ym]]

----------------------------------------------------------------------------
(* GET handlers *)

GetMonthsResult == Only(200, 0, MonthsBody(months))

GetMonths == Apply("GET /months", GetMonthsResult)

GetBillsResult(ym) ==
  IF Falsy(ym) THEN Only(400, 0, <<>>)
  ELSE Only(200, 0, BillsBody(bills, months, ym))

GetBills(ym) == Apply("GET /bills", GetBillsResult(ym))

GetMoneyInsResult(ym) ==
  IF Falsy(ym) THEN Only(400, 0, <<>>)
  ELSE Only(200, 0, MoneyInsBody(money_ins, months, ym))

GetMoneyIns(ym) == Apply("GET /money_ins", GetMoneyInsResult(ym))

----------------------------------------------------------------------------
(* POST handlers *)

AddMonthResult(ym) ==
  LET em == EnsureMonth(schema, months, seq.months, ym)
  IN IF Falsy(ym) THEN Only(400, 0, <<>>)
     ELSE IF em.exc # "none" THEN Only(500, 0, <<>>)
     ELSE Result(em.months, bills, money_ins, [seq EXCEPT !.months = em.seq], 201,
                 (CHOOSE r \in MonthByYm(em.months, ym) : TRUE).id, <<>>)

AddMonth(ym) ==
  /\ AddMonthResult(ym).seq.months <= MaxMonthId
  /\ Apply("POST /add_month", AddMonthResult(ym))

\* variant: an unknown key is answered like the deletes by identifier
DeleteMonthLenient(ym) ==
  IF Falsy(ym) THEN Only(400, 0, <<>>)
  ELSE IF MonthByYm(months, ym) = {} THEN Only(200, 0, <<>>)
  ELSE LET row == CHOOSE r \in MonthByYm(months, ym) : TRUE
       IN Result({r \in months : r.id # row.id}, CascadeKeep(bills, row.id),
                 CascadeKeep(money_ins, row.id), seq, 200, 0, <<>>)

DeleteMonthResult(ym) ==
  IF Falsy(ym) THEN Only(400, 0, <<>>)
  ELSE IF MonthByYm(months, ym) = {} THEN Only(404, 0, <<>>)
  ELSE LET row == CHOOSE r \in MonthByYm(months, ym) : TRUE
       IN Result({r \in months : r.id # row.id}, CascadeKeep(bills, row.id),
                 CascadeKeep(money_ins, row.id), seq, 200, 0, <<>>)

DeleteMonth(ym) == Apply("POST /delete_month", DeleteMonthResult(ym))

\* the validation shared by the add and update handlers of bills and
\* money-ins: 400 for a missing field or a ValueError of float(), 500 for
\* any other exception of float() (caught at the handler boundary), else 0
EntryStatus(keyPresent, name, amount) ==
  IF ~(keyPresent /\ Truthy(name) /\ amount.t # "null") THEN 400
  ELSE IF PyFloat(amount).exc = "ValueError" THEN 400
  ELSE IF PyFloat(amount).exc # "none" THEN 500
  ELSE 0

AddBillResult(ym, name, amount, date, quarterly) ==
  LET st == EntryStatus(~Falsy(ym), name, amount)
      em == EnsureMonth(schema, months, seq.months, ym)
      row == [id |-> seq.bills + 1, month_id |-> em.id, name |-> name.s,
              amount |-> PyFloat(amount).val, date |-> date,
              quarterly |-> IF quarterly THEN 1 ELSE 0]
  IN IF st # 0 THEN Only(st, 0, <<>>)
     ELSE IF em.exc # "none" THEN Only(500, 0, <<>>)
     ELSE IF ~Bindable(name)
     THEN Result(em.months, bills, money_ins, [seq EXCEPT !.months = em.seq],
                 500, 0, <<>>)
     ELSE Result(em.months, bills \cup {row}, money_ins,
                 [seq EXCEPT !.months = em.seq, !.bills = row.id], 201, row.id, <<>>)

AddBill(ym, name, amount, date, quarterly) ==
  /\ AddBillResult(ym, name, amount, date, quarterly).seq.months <= MaxMonthId
  /\ AddBillResult(ym, name, amount, date, quarterly).seq.bills <= MaxBillId
  /\ Apply("POST /add_bill", AddBillResult(ym, name, amount, date, quarterly))

\* variant: the update also moves the bill to the month created last
UpdateBillReassigns(id, name, amount, date, quarterly) ==
  LET st == EntryStatus(id # 0, name, amount)
  IN IF st # 0 THEN Only(st, 0, <<>>)
     ELSE IF ~Bindable(name) THEN Only(500, 0, <<>>)
     ELSE Result(months,
                 {IF r.id = id
                  THEN [r EXCEPT !.name = name.s, !.amount = PyFloat(amount).val,
                                 !.date = date, !.month_id = seq.months,
                                 !.quarterly = IF quarterly THEN 1 ELSE 0]
                  ELSE r : r \in bills},
                 money_ins, seq, 200, id, <<>>)

UpdateBillResult(id, name, amount, date, quarterly) ==
  LET st == EntryStatus(id # 0, name, amount)
  IN IF st # 0 THEN Only(st, 0, <<>>)
     ELSE IF ~Bindable(name) THEN Only(500, 0, <<>>)
     ELSE Result(months,
                 {IF r.id = id
                  THEN [r EXCEPT !.name = name.s, !.amount = PyFloat(amount).val,
                                 !.date = date,
                                 !.quarterly = IF quarterly THEN 1 ELSE 0]
                  ELSE r : r \in bills},
                 money_ins, seq, 200, id, <<>>)

UpdateBill(id, name, amount, date, quarterly) ==
  Apply("POST /update_bill", UpdateBillResult(id, name, amount, date, quarterly))

AddMoneyInResult(ym, source, amount, date) ==
  LET st == EntryStatus(~Falsy(ym), source, amount)
      em == EnsureMonth(schema, months, seq.months, ym)
      row == [id |-> seq.money_ins + 1, month_id |-> em.id, source |-> source.s,
              amount |-> PyFloat(amount).val, date |-> date]
  IN IF st # 0 THEN Only(st, 0, <<>>)
     ELSE IF em.exc # "none" THEN Only(500, 0, <<>>)
     ELSE IF ~Bindable(source)
     THEN Result(em.months, bills, money_ins, [seq EXCEPT !.months = em.seq],
                 500, 0, <<>>)
     ELSE Result(em.months, bills, money_ins \cup {row},
                 [seq EXCEPT !.months = em.seq, !.money_ins = row.id], 201, row.id, <<>>)

AddMoneyIn(ym, source, amount, date) ==
  /\ AddMoneyInResult(ym, source, amount, date).seq.months <= MaxMonthId
  /\ AddMoneyInResult(ym, source, amount, date).seq.money_ins <= MaxMoneyInId
  /\ Apply("POST /add_money_in", AddMoneyInResult(ym, source, amount, date))

UpdateMoneyInResult(id, source, amount, date) ==
  LET st == EntryStatus(id # 0, source, amount)
  IN IF st # 0 THEN Only(st, 0, <<>>)
     ELSE IF ~Bindable(source) THEN Only(500, 0, <<>>)
     ELSE Result(months, bills,
                 {IF r.id = id
                  THEN [r EXCEPT !.source = source.s, !.amount = PyFloat(amount).val,
                                 !.date = date]
                  ELSE r : r \in money_ins},
                 seq, 200, id, <<>>)

UpdateMoneyIn(id, source, amount, date) ==
  Apply("POST /update_money_in", UpdateMoneyInResult(id, source, amount, date))

\* variant: the update also rewrites the opening balance
SetBothBalances(ms, ym, value) ==
  {IF r.ym = ym THEN [r EXCEPT !.closing_balance = value, !.opening_balance = value]
   ELSE r : r \in ms}

\* variant: the update has no WHERE clause
SetClosingBalanceAll(ms, ym, value) ==
  {[r EXCEPT !.closing_balance = value] : r \in ms}

\* UPDATE months SET closing_balance = ? WHERE ym = ?
SetClosingBalance(ms, ym, value) ==
  {IF r.ym = ym THEN [r EXCEPT !.closing_balance = value] ELSE r : r \in ms}

UpdateBalanceResult(ym, closing_balance) ==
  IF Falsy(ym) \/ closing_balance.t = "null" THEN Only(400, 0, <<>>)
  ELSE IF PyFloat(closing_balance).exc = "ValueError" THEN Only(400, 0, <<>>)
  ELSE IF PyFloat(closing_balance).exc # "none"
          \/ ~HasCols(schema.months, {"ym", "closing_balance"})
  THEN Only(500, 0, <<>>)
  ELSE Result(SetClosingBalance(months, ym, PyFloat(closing_balance).val),
              bills, money_ins, seq, 200, 0, <<>>)

UpdateBalance(ym, closing_balance) ==
  Apply("POST /update_balance", UpdateBalanceResult(ym, closing_balance))

UnknownPost == Apply("POST /other", Only(404, 0, <<>>))

----------------------------------------------------------------------------
(* DELETE handlers *)

\* DELETE FROM <table> WHERE id = ?
DeleteById(rows, id) == {r \in rows : r.id # id}

\* variant: an identifier that matches no row is reported as not found
DeleteBillStrict(seg) ==
  IF PyInt(seg).exc # "none" THEN Only(500, 0, <<>>)
  ELSE IF \A r \in bills : r.id # PyInt(seg).val THEN Only(404, 0, <<>>)
  ELSE Result(months, DeleteById(bills, PyInt(seg).val), money_ins, seq,
              200, PyInt(seg).val, <<>>)

DeleteBillResult(seg) ==
  IF PyInt(seg).exc # "none" THEN Only(500, 0, <<>>)
  ELSE Result(months, DeleteById(bills, PyInt(seg).val), money_ins, seq,
              200, PyInt(seg).val, <<>>)

DeleteBill(seg) == Apply("DELETE /delete_bill/", DeleteBillResult(seg))

DeleteMoneyInResult(seg) ==
  IF PyInt(seg).exc # "none" THEN Only(500, 0, <<>>)
  ELSE Result(months, bills, DeleteById(money_ins, PyInt(seg).val), seq,
              200, PyInt(seg).val, <<>>)

DeleteMoneyIn(seg) == Apply("DELETE /delete_money_in/", DeleteMoneyInResult(seg))

UnknownDelete == Apply("DELETE /other", Only(404, 0, <<>>))

----------------------------------------------------------------------------
(* Start-up *)

\* main() runs init_db before serving; a restart runs it again on the store
InitDb ==
  /\ schema' = InitDbSchema(schema)
  /\ last' = [route |-> "init_db", status |-> 0]
  /\ UNCHANGED <<months, bills, money_ins, seq>>

Init ==
  /\ schema \in {InitDbSchema(NoFile), InitDbSchema(FileWithBalances)}
  /\ months = {}
  /\ bills = {}
  /\ money_ins = {}
  /\ seq = [months |-> 0, bills |-> 0, money_ins |-> 0]
  /\ last = [route |-> "init_db", status |-> 0]

Next ==
  \/ InitDb
  \/ GetMonths
  \/ \E ym \in YmInputs : GetBills(ym)
  \/ \E ym \in YmInputs : GetMoneyIns(ym)
  \/ \E ym \in YmInputs : AddMonth(ym)
  \/ \E ym \in YmInputs : DeleteMonth(ym)
  \/ \E b \in BillBodies : AddBill(b.ym, b.name, b.amount, b.date, b.quarterly)
  \/ \E b \in BillUpdates : UpdateBill(b.id, b.name, b.amount, b.date, b.quarterly)
  \/ \E b \in MoneyInBodies : AddMoneyIn(b.ym, b.source, b.amount, b.date)
  \/ \E b \in MoneyInUpdates : UpdateMoneyIn(b.id, b.source, b.amount, b.date)
  \/ \E ym \in YmInputs, cb \in ClosingBalances : UpdateBalance(ym, cb)
  \/ UnknownPost
  \/ \E seg \in Segments : DeleteBill(seg)
  \/ \E seg \in Segments : DeleteMoneyIn(seg)
  \/ UnknownDelete

Spec == Init /\ [][Next]_vars

----------------------------------------------------------------------------
(* Vocabulary of the properties *)

Store == <<months, bills, money_ins, seq>>

StoreOf(r) == <<r.months, r.bills, r.money_ins, r.seq>>

MonthIds(ms) == {r.id : r \in ms}

\* the rows a step has just inserted into months
NewMonths == {r \in months' : r.id \notin MonthIds(months)}

WellFormed(ym) == SplitYm(ym).exc = "none"

\* k2 denotes the calendar month that follows the one k1 denotes
ChronoSucc(k1, k2) ==
  /\ WellFormed(k1)
  /\ WellFormed(k2)
  /\ LET a == SplitYm(k1)
         b == SplitYm(k2)
     IN \/ a.year = b.year /\ b.month = a.month + 1
        \/ b.year = a.year + 1 /\ a.month = 12 /\ b.month = 1

\* the month part of the key is a single digit (YYYY-M)
Unpadded(ym) == Len(ym) = 2 /\ Len(ym[2]) = 1

Jan24 == <<Y2024, <<0, 1>>>>
Jan24Short == <<Y2024, <<1>>>>
Feb24 == <<Y2024, <<0, 2>>>>
Dec23 == <<Y2023, <<1, 2>>>>

HasMonth(ym, opening, closing) ==
  \E r \in months : r.ym = ym /\ r.opening_balance = opening /\ r.closing_balance = closing

----------------------------------------------------------------------------
(* C1 *)

\* C1: whenever a request creates a month row M2 while a row M1 whose key
\* denotes the chronologically preceding month is stored, the new row opens
\* and closes with the closing balance M1 holds at that moment.
C1_CarryForward ==
  [][\A r \in NewMonths : \A p \in months :
       ChronoSucc(p.ym, r.ym) =>
         /\ r.opening_balance = p.closing_balance
         /\ r.closing_balance = p.closing_balance]_vars

----------------------------------------------------------------------------
(* C2 *)

\* C2: no step changes the opening balance of a month row that exists
\* before and after it.
C2_OpeningNeverChanges ==
  [][\A r \in months : \A t \in months' :
       t.id = r.id => t.opening_balance = r.opening_balance]_vars

\* 2024-02 was created while 2024-01 closed with 0; Update balance then set
\* the closing balance of 2024-01, and 2024-02 still opens with 0
C2_Witness ==
  /\ HasMonth(Jan24, 0, -1200)
  /\ HasMonth(Feb24, 0, 0)
  /\ last = [route |-> "POST /update_balance", status |-> 200]

----------------------------------------------------------------------------
(* C3 *)

\* C3: on a store whose schema init_db created and that holds no months, Add
\* month with a well-formed key answers 201 with the month's id and leaves
\* exactly one month row, the one with that key.
C3_AddMonthOnInitDbStore ==
  (schema = InitDbSchema(NoFile) /\ months = {}) =>
    \A ym \in YmInputs :
      WellFormed(ym) =>
        LET r == AddMonthResult(ym)
        IN /\ r.status = 201
           /\ Cardinality(r.months) = 1
           /\ \A m \in r.months : m.ym = ym /\ m.id = r.id

----------------------------------------------------------------------------
(* C4 *)

\* C4: whenever a request creates a month row while no row is stored under
\* the key of the preceding month, the new row opens and closes with 0, and
\* Add month answers 201.
C4_NoPredecessorZero ==
  [][\A r \in NewMonths :
       MonthByYm(months, PrevYm(SplitYm(r.ym).year, SplitYm(r.ym).month)) = {} =>
         /\ r.opening_balance = 0
         /\ r.closing_balance = 0
         /\ last'.route = "POST /add_month" => last'.status = 201]_vars

\* 2024-02 was created by Add month while another month with a non-zero
\* closing balance, which is not its predecessor, was stored
C4_Witness ==
  /\ HasMonth(Dec23, 0, -1200)
  /\ HasMonth(Feb24, 0, 0)
  /\ last = [route |-> "POST /add_month", status |-> 201]

----------------------------------------------------------------------------
(* C5 *)

\* C5: Add month with a key that is already stored answers 201 with the id
\* of the stored row, which is the id the creating call answered with, and
\* leaves every table as it is: no new row, no balance changed.
C5_AddMonthIdempotent ==
  \A ym \in YmInputs :
    LET r == AddMonthResult(ym)
    IN /\ MonthByYm(months, ym) # {} =>
            /\ r.status = 201
            /\ \A m \in MonthByYm(months, ym) : r.id = m.id
            /\ StoreOf(r) = Store
       /\ (MonthByYm(months, ym) = {} /\ r.status = 201) =>
            /\ r.id \notin MonthIds(months)
            /\ \A m \in r.months : m.ym = ym <=> m.id = r.id

\* one month was ever created, its closing balance was updated, and the
\* last request, an Add month answered 201, created no second month
C5_Witness ==
  /\ seq.months = 1
  /\ HasMonth(Jan24, 0, -1200)
  /\ last = [route |-> "POST /add_month", status |-> 201]

----------------------------------------------------------------------------
(* C6 *)

EntriesOf(rows, mid) == {r \in rows : r.month_id = mid}

\* C6: a Delete month answered 200 leaves no bill and no money-in of the
\* deleted month, List bills and List money-ins for its key are empty, and
\* the entries of the other months are exactly as before.
C6_CascadeDelete ==
  \A ym \in YmInputs :
    LET r == DeleteMonthResult(ym)
    IN r.status = 200 =>
         \A m \in MonthByYm(months, ym) :
           /\ EntriesOf(r.bills, m.id) = {}
           /\ EntriesOf(r.money_ins, m.id) = {}
           /\ BillsBody(r.bills, r.months, ym) = <<>>
           /\ MoneyInsBody(r.money_ins, r.months, ym) = <<>>
           /\ r.bills = bills \ EntriesOf(bills, m.id)
           /\ r.money_ins = money_ins \ EntriesOf(money_ins, m.id)
           /\ r.months = months \ {m}

\* a bill was added, the month it was added to is gone, no bill is left,
\* and the money-in of the remaining month is still there
C6_Witness ==
  /\ last = [route |-> "POST /delete_month", status |-> 200]
  /\ seq.bills = 1
  /\ bills = {}
  /\ \E m \in months : EntriesOf(money_ins, m.id) # {}

----------------------------------------------------------------------------
(* C7 *)

\* the amount is a JSON value that is not a number
NonNumeric(v) == v.t \in {"str", "bool", "list"}

\* C7: Add bill and Add money-in with the amount missing or not a number
\* answer 400 and leave every table as it is.
C7_BadAmountRejected ==
  \A ym \in YmInputs, name \in Names, amount \in Amounts, date \in Dates :
    (amount.t = "null" \/ NonNumeric(amount)) =>
      /\ \A quarterly \in BOOLEAN :
           LET r == AddBillResult(ym, name, amount, date, quarterly)
           IN r.status = 400 /\ StoreOf(r) = Store
      /\ LET r == AddMoneyInResult(ym, name, amount, date)
         IN r.status = 400 /\ StoreOf(r) = Store

----------------------------------------------------------------------------
(* C8 *)

IntSegments == {seg \in Segments : PyInt(seg).exc = "none"}

\* C8: Delete bill and Delete money-in for an identifier that matches no row
\* answer 200 with that identifier and leave every table as it is; deleting
\* an identifier a second time changes nothing more.
C8_DeleteMissingEntry ==
  \A seg \in IntSegments :
    LET id == PyInt(seg).val
        b == DeleteBillResult(seg)
        m == DeleteMoneyInResult(seg)
    IN /\ (\A r \in bills : r.id # id) =>
            b.status = 200 /\ b.id = id /\ StoreOf(b) = Store
       /\ (\A r \in money_ins : r.id # id) =>
            m.status = 200 /\ m.id = id /\ StoreOf(m) = Store
       /\ \A r \in b.bills : r.id # id
       /\ \A r \in m.money_ins : r.id # id

\* no bill identifier was ever issued, and a Delete bill has just answered
\* 200 on a store that holds a month and a money-in
C8_Witness ==
  /\ last = [route |-> "DELETE /delete_bill/", status |-> 200]
  /\ seq.bills = 0
  /\ months # {}
  /\ money_ins # {}

----------------------------------------------------------------------------
(* C9 *)

\* C9: whenever a request creates a month row while the chronologically
\* preceding month is stored under a key whose month part is not
\* zero-padded, the new row opens with that month's closing balance.
C9_UnpaddedPredecessor ==
  [][\A r \in NewMonths : \A p \in months :
       (ChronoSucc(p.ym, r.ym) /\ Unpadded(p.ym)) =>
         r.opening_balance = p.closing_balance]_vars

----------------------------------------------------------------------------
(* C10 *)

NumericBalance(v) == PyFloat(v).exc = "none"

\* C10: Update balance with a number on a stored key answers 200, sets the
\* closing balance of that month to the number and changes nothing else: not
\* its opening balance, no other month, no bill, no money-in.
C10_UpdateBalanceFrame ==
  \A ym \in YmInputs, cb \in ClosingBalances :
    (MonthByYm(months, ym) # {} /\ NumericBalance(cb)) =>
      LET r == UpdateBalanceResult(ym, cb)
      IN /\ r.status = 200
         /\ \A m \in MonthByYm(months, ym) :
              [m EXCEPT !.closing_balance = PyFloat(cb).val] \in r.months
         /\ \A m \in months : m.ym # ym => m \in r.months
         /\ Cardinality(r.months) = Cardinality(months)
         /\ r.bills = bills
         /\ r.money_ins = money_ins
         /\ r.seq = seq

\* the closing balance of 2023-12 was updated while its successor 2024-1
\* was already stored: the successor still opens and closes with 0
C10_Witness ==
  /\ last = [route |-> "POST /update_balance", status |-> 200]
  /\ HasMonth(Dec23, 0, -1200)
  /\ HasMonth(Jan24Short, 0, 0)

----------------------------------------------------------------------------
(* C11 *)

\* C11: in every reachable state no two month rows have the same key, no
\* two bills have the same identifier and no two money-ins have the same
\* identifier.
C11_UniqueKeys ==
  /\ \A a \in months : \A b \in months : a.ym = b.ym => a = b
  /\ \A a \in bills : \A b \in bills : a.id = b.id => a = b
  /\ \A a \in money_ins : \A b \in money_ins : a.id = b.id => a = b

\* two months, two bills and two money-ins are stored, and the last request
\* was an Add month answered 201 that created none of them
C11_Witness ==
  /\ Cardinality(months) = 2
  /\ seq.months = 2
  /\ \A m \in months : m.closing_balance # m.opening_balance
  /\ Cardinality(bills) = 2
  /\ Cardinality(money_ins) = 2
  /\ last = [route |-> "POST /add_month", status |-> 201]

----------------------------------------------------------------------------
(* C12 *)

\* C12: Update bill and Update money-in with an identifier that matches no
\* row, and Update balance with a key that matches no month, answer 200 and
\* leave every table as it is (no row is created).
C12_UpdateMissingNoOp ==
  /\ \A id \in Ids \ {0}, date \in Dates :
       /\ (\A b \in bills : b.id # id) =>
            \A quarterly \in BOOLEAN :
              LET r == UpdateBillResult(id, JStr("Rent"), JNum(1200), date, quarterly)
              IN r.status = 200 /\ StoreOf(r) = Store
       /\ (\A m \in money_ins : m.id # id) =>
            LET r == UpdateMoneyInResult(id, JStr("Rent"), JNum(1200), date)
            IN r.status = 200 /\ StoreOf(r) = Store
  /\ \A ym \in YmInputs, cb \in ClosingBalances :
       (~Falsy(ym) /\ MonthByYm(months, ym) = {} /\ PyFloat(cb).exc = "none") =>
         LET r == UpdateBalanceResult(ym, cb)
         IN r.status = 200 /\ StoreOf(r) = Store

----------------------------------------------------------------------------
(* C13 *)

\* C13: Delete month answers 404 for a key that matches no month and 400
\* for a missing key, and in both cases leaves every table as it is.
C13_DeleteMonthErrors ==
  \A ym \in YmInputs \cup {EmptyYm} :
    LET r == DeleteMonthResult(ym)
    IN /\ Falsy(ym) => r.status = 400 /\ StoreOf(r) = Store
       /\ (~Falsy(ym) /\ MonthByYm(months, ym) = {}) =>
            r.status = 404 /\ StoreOf(r) = Store

\* a Delete month has just answered 404 on a store that holds a month, a
\* bill and a money-in
C13_Witness ==
  /\ last = [route |-> "POST /delete_month", status |-> 404]
  /\ months # {}
  /\ bills # {}
  /\ money_ins # {}

----------------------------------------------------------------------------
(* The entry tables under a wider bound: two bills and two money-ins, on
   requests that name two months *)

MaxListedBills == 2
MaxListedMoneyIns == 2

EntryYms == {Jan24, Feb24, NoneYm}

EntryBillBodies ==
  [ym : EntryYms, name : {JStr("Rent")}, amount : {JNum(1200)},
   date : Dates, quarterly : BOOLEAN]
  \cup [ym : {Jan24}, name : {JList}, amount : {JNum(1200)},
        date : Dates, quarterly : {FALSE}]

EntryBillUpdates ==
  [id : Ids, name : {JStr("Rent")}, amount : {JNum(1200)},
   date : Dates, quarterly : BOOLEAN]

EntryMoneyInBodies ==
  [ym : EntryYms, source : {JStr("Rent")}, amount : {JNum(1200)}, date : Dates]
  \cup [ym : {Jan24}, source : {JList}, amount : {JNum(1200)}, date : Dates]

EntryMoneyInUpdates ==
  [id : Ids, source : {JStr("Rent")}, amount : {JNum(1200), JNumStr(75)},
   date : Dates]

AddBillListed(ym, name, amount, date, quarterly) ==
  /\ AddBillResult(ym, name, amount, date, quarterly).seq.months <= MaxMonthId
  /\ AddBillResult(ym, name, amount, date, quarterly).seq.bills <= MaxListedBills
  /\ Apply("POST /add_bill", AddBillResult(ym, name, amount, date, quarterly))

AddMoneyInListed(ym, source, amount, date) ==
  /\ AddMoneyInResult(ym, source, amount, date).seq.months <= MaxMonthId
  /\ AddMoneyInResult(ym, source, amount, date).seq.money_ins <= MaxListedMoneyIns
  /\ Apply("POST /add_money_in", AddMoneyInResult(ym, source, amount, date))

NextEntries ==
  \/ InitDb
  \/ GetMonths
  \/ \E ym \in EntryYms : GetBills(ym)
  \/ \E ym \in EntryYms : GetMoneyIns(ym)
  \/ \E ym \in EntryYms : AddMonth(ym)
  \/ \E ym \in EntryYms : DeleteMonth(ym)
  \/ \E b \in EntryBillBodies :
       AddBillListed(b.ym, b.name, b.amount, b.date, b.quarterly)
  \/ \E b \in EntryBillUpdates :
       UpdateBill(b.id, b.name, b.amount, b.date, b.quarterly)
  \/ \E b \in EntryMoneyInBodies : AddMoneyInListed(b.ym, b.source, b.amount, b.date)
  \/ \E b \in EntryMoneyInUpdates : UpdateMoneyIn(b.id, b.source, b.amount, b.date)
  \/ \E ym \in EntryYms : UpdateBalance(ym, JNum(-1200))
  \/ UnknownPost
  \/ \E seg \in Segments : DeleteBill(seg)
  \/ \E seg \in Segments : DeleteMoneyIn(seg)
  \/ UnknownDelete

SpecEntries == Init /\ [][NextEntries]_vars

----------------------------------------------------------------------------
(* C14 *)

\* the keys the lists are read for: two that requests create months for and
\* one no request names
ListKeys == {Jan24, Feb24, Dec23}

BillLists(bs, ms) == [ym \in ListKeys |-> BillsBody(bs, ms, ym)]

MoneyInLists(mis, ms) == [ym \in ListKeys |-> MoneyInsBody(mis, ms, ym)]

Range(list) == {list[i] : i \in 1..Len(list)}

Ascending(list) ==
  \A i \in 1..Len(list) : \A j \in 1..Len(list) : i < j => list[i].id < list[j].id

Without(list, id) == SelectSeq(list, LAMBDA e : e.id # id)

Replaced(list, id, e) ==
  [i \in 1..Len(list) |-> IF list[i].id = id THEN e ELSE list[i]]

\* C14: the bills (money-ins) listed for a key are exactly the entries
\* stored under the month with that key, in ascending identifier order,
\* with the values last written: a 201 add appends its entry to the list
\* of its key, a 200 update replaces the values of the entry it names, a
\* delete removes the entry, Delete month empties the list of its key, and
\* no request changes any other list; a key with no month lists nothing.
C14_Lists ==
  LET bl == BillLists(bills, months)
      ml == MoneyInLists(money_ins, months)
      BL(r) == BillLists(r.bills, r.months)
      ML(r) == MoneyInLists(r.money_ins, r.months)
  IN /\ \A ym \in ListKeys :
          /\ GetBillsResult(ym) = Only(200, 0, bl[ym])
          /\ GetMoneyInsResult(ym) = Only(200, 0, ml[ym])
          /\ Ascending(bl[ym]) /\ Ascending(ml[ym])
          /\ {e.id : e \in Range(bl[ym])}
               = {b.id : b \in {x \in bills :
                           \E m \in MonthByYm(months, ym) : x.month_id = m.id}}
          /\ {e.id : e \in Range(ml[ym])}
               = {b.id : b \in {x \in money_ins :
                           \E m \in MonthByYm(months, ym) : x.month_id = m.id}}
          /\ MonthByYm(months, ym) = {} => bl[ym] = <<>> /\ ml[ym] = <<>>
     /\ \A b \in EntryBillBodies :
          LET r == AddBillResult(b.ym, b.name, b.amount, b.date, b.quarterly)
              e == [id |-> r.id, name |-> b.name.s, amount |-> b.amount.n,
                    date |-> b.date, quarterly |-> b.quarterly]
          IN /\ BL(r) = IF r.status = 201 THEN [bl EXCEPT ![b.ym] = Append(@, e)]
                        ELSE bl
             /\ ML(r) = ml
     /\ \A b \in EntryMoneyInBodies :
          LET r == AddMoneyInResult(b.ym, b.source, b.amount, b.date)
              e == [id |-> r.id, source |-> b.source.s, amount |-> b.amount.n,
                    date |-> b.date]
          IN /\ ML(r) = IF r.status = 201 THEN [ml EXCEPT ![b.ym] = Append(@, e)]
                        ELSE ml
             /\ BL(r) = bl
     /\ \A u \in EntryBillUpdates :
          LET r == UpdateBillResult(u.id, u.name, u.amount, u.date, u.quarterly)
              e == [id |-> u.id, name |-> u.name.s, amount |-> u.amount.n,
                    date |-> u.date, quarterly |-> u.quarterly]
          IN /\ BL(r) = IF r.status = 200
                        THEN [ym \in ListKeys |-> Replaced(bl[ym], u.id, e)]
                        ELSE bl
             /\ ML(r) = ml
     /\ \A u \in EntryMoneyInUpdates :
          LET r == UpdateMoneyInResult(u.id, u.source, u.amount, u.date)
              e == [id |-> u.id, source |-> u.source.s, amount |-> u.amount.n,
                    date |-> u.date]
          IN /\ ML(r) = IF r.status = 200
                        THEN [ym \in ListKeys |-> Replaced(ml[ym], u.id, e)]
                        ELSE ml
             /\ BL(r) = bl
     /\ \A seg \in Segments :
          LET r == DeleteBillResult(seg)
              q == DeleteMoneyInResult(seg)
          IN /\ BL(r) = IF r.status = 200
                        THEN [ym \in ListKeys |-> Without(bl[ym], r.id)]
                        ELSE bl
             /\ ML(r) = ml
             /\ ML(q) = IF q.status = 200
                        THEN [ym \in ListKeys |-> Without(ml[ym], q.id)]
                        ELSE ml
             /\ BL(q) = bl
     /\ \A ym \in EntryYms :
          LET r == DeleteMonthResult(ym)
              a == AddMonthResult(ym)
              u == UpdateBalanceResult(ym, JNum(-1200))
          IN /\ BL(r) = IF r.status = 200 THEN [bl EXCEPT ![ym] = <<>>] ELSE bl
             /\ ML(r) = IF r.status = 200 THEN [ml EXCEPT ![ym] = <<>>] ELSE ml
             /\ BL(a) = bl /\ ML(a) = ml
             /\ BL(u) = bl /\ ML(u) = ml

\* a list of bills has just been read while one month holds two bills
\* that differ in a field and another month holds two money-ins
C14_Witness ==
  /\ last = [route |-> "GET /bills", status |-> 200]
  /\ Len(BillsBody(bills, months, Jan24)) = 2
  /\ BillsBody(bills, months, Jan24)[1].quarterly
       # BillsBody(bills, months, Jan24)[2].quarterly
  /\ Len(MoneyInsBody(money_ins, months, Feb24)) = 2

----------------------------------------------------------------------------
(* C15 *)

\* the outcome r of a 201 add for key ym, whose new entries are added: the
\* months stored before are unchanged; a stored key gains no month; an
\* absent key gains the month Add month would create, which opens and
\* closes with the closing balance of the chronologically preceding month
\* (0 if none is stored); the new entry belongs to the month with key ym
Attached(r, ym, added) ==
  /\ months \subseteq r.months
  /\ MonthByYm(months, ym) # {} => r.months = months
  /\ MonthByYm(months, ym) = {} =>
       /\ r.months = AddMonthResult(ym).months
       /\ \A m \in r.months \ months :
            /\ m.ym = ym
            /\ \A p \in months :
                 ChronoSucc(p.ym, ym) =>
                   /\ m.opening_balance = p.closing_balance
                   /\ m.closing_balance = p.closing_balance
            /\ (\A p \in months : ~ChronoSucc(p.ym, ym)) =>
                 m.opening_balance = 0 /\ m.closing_balance = 0
  /\ Cardinality(added) = 1
  /\ \A e \in added : \E m \in MonthByYm(r.months, ym) : e.month_id = m.id

\* C15: an Add bill or Add money-in that answers 201 attaches its entry to
\* the month with its key, creating that month as Add month would (carrying
\* the preceding month's closing balance, or 0) if the key is not stored;
\* adds, updates and deletes of entries change no balance of a stored month.
C15_ImplicitCreation ==
  /\ \A b \in BillBodies :
       LET r == AddBillResult(b.ym, b.name, b.amount, b.date, b.quarterly)
       IN r.status = 201 => Attached(r, b.ym, r.bills \ bills)
  /\ \A b \in MoneyInBodies :
       LET r == AddMoneyInResult(b.ym, b.source, b.amount, b.date)
       IN r.status = 201 => Attached(r, b.ym, r.money_ins \ money_ins)
  /\ \A u \in BillUpdates :
       UpdateBillResult(u.id, u.name, u.amount, u.date, u.quarterly).months = months
  /\ \A u \in MoneyInUpdates :
       UpdateMoneyInResult(u.id, u.source, u.amount, u.date).months = months
  /\ \A seg \in Segments :
       /\ DeleteBillResult(seg).months = months
       /\ DeleteMoneyInResult(seg).months = months

----------------------------------------------------------------------------
(* C16 *)

Owners(e) == {m \in months : m.id = e.month_id}

SameOwners(before, after) ==
  /\ {e.id : e \in after} = {e.id : e \in before}
  /\ \A e \in before : \A f \in after : f.id = e.id => f.month_id = e.month_id

\* C16: every stored bill and money-in references exactly one stored month,
\* and an Update bill or Update money-in leaves the owner of every entry as
\* it is.
C16_Ownership ==
  /\ \A e \in bills \cup money_ins : Cardinality(Owners(e)) = 1
  /\ \A u \in EntryBillUpdates :
       SameOwners(bills,
                  UpdateBillResult(u.id, u.name, u.amount, u.date, u.quarterly).bills)
  /\ \A u \in EntryMoneyInUpdates :
       SameOwners(money_ins,
                  UpdateMoneyInResult(u.id, u.source, u.amount, u.date).money_ins)

\* an Update bill has just answered 200 on a store where a month was deleted
\* with its entries (identifiers were issued to two months, two bills and
\* two money-ins) and the other month still owns a bill and a money-in
C16_Witness ==
  /\ last = [route |-> "POST /update_bill", status |-> 200]
  /\ seq = [months |-> 2, bills |-> 2, money_ins |-> 2]
  /\ Cardinality(months) = 1
  /\ Cardinality(bills) = 1
  /\ Cardinality(money_ins) = 1
  /\ \A e \in bills : e.quarterly = 1

----------------------------------------------------------------------------
(* C17 *)

Failed(r) == r.status \in {400, 404, 500}

\* C17: a request answered 400, 404 or 500 leaves months, bills, money-ins
\* and the identifier sequences as they were; in particular a failed Add
\* bill or Add money-in leaves no month row behind.
C17_FailureLeavesStore ==
  /\ \A ym \in YmInputs \cup {EmptyYm} :
       /\ Failed(GetBillsResult(ym)) => StoreOf(GetBillsResult(ym)) = Store
       /\ Failed(GetMoneyInsResult(ym)) => StoreOf(GetMoneyInsResult(ym)) = Store
       /\ Failed(AddMonthResult(ym)) => StoreOf(AddMonthResult(ym)) = Store
       /\ Failed(DeleteMonthResult(ym)) => StoreOf(DeleteMonthResult(ym)) = Store
       /\ \A cb \in ClosingBalances :
            Failed(UpdateBalanceResult(ym, cb)) =>
              StoreOf(UpdateBalanceResult(ym, cb)) = Store
  /\ \A b \in BillBodies :
       LET r == AddBillResult(b.ym, b.name, b.amount, b.date, b.quarterly)
       IN Failed(r) => StoreOf(r) = Store
  /\ \A b \in MoneyInBodies :
       LET r == AddMoneyInResult(b.ym, b.source, b.amount, b.date)
       IN Failed(r) => StoreOf(r) = Store
  /\ \A u \in BillUpdates :
       LET r == UpdateBillResult(u.id, u.name, u.amount, u.date, u.quarterly)
       IN Failed(r) => StoreOf(r) = Store
  /\ \A u \in MoneyInUpdates :
       LET r == UpdateMoneyInResult(u.id, u.source, u.amount, u.date)
       IN Failed(r) => StoreOf(r) = Store
  /\ \A seg \in Segments :
       /\ Failed(DeleteBillResult(seg)) => StoreOf(DeleteBillResult(seg)) = Store
       /\ Failed(DeleteMoneyInResult(seg)) =>
            StoreOf(DeleteMoneyInResult(seg)) = Store

----------------------------------------------------------------------------
(* Deleting and re-creating a month: three month identifiers, and Delete
   month issued for 2024-02 only, so that a gap in the identifiers of the
   stored months tells that 2024-02 was deleted *)

MaxRecreatedMonthId == 3

RecreateYms == {Jan24, Jan24Short, Feb24, NoneYm}

AddMonthAgain(ym) ==
  /\ AddMonthResult(ym).seq.months <= MaxRecreatedMonthId
  /\ Apply("POST /add_month", AddMonthResult(ym))

AddBillAgain(ym, name, amount, date, quarterly) ==
  /\ AddBillResult(ym, name, amount, date, quarterly).seq.months <= MaxRecreatedMonthId
  /\ AddBillResult(ym, name, amount, date, quarterly).seq.bills <= MaxBillId
  /\ Apply("POST /add_bill", AddBillResult(ym, name, amount, date, quarterly))

AddMoneyInAgain(ym, source, amount, date) ==
  /\ AddMoneyInResult(ym, source, amount, date).seq.months <= MaxRecreatedMonthId
  /\ AddMoneyInResult(ym, source, amount, date).seq.money_ins <= MaxMoneyInId
  /\ Apply("POST /add_money_in", AddMoneyInResult(ym, source, amount, date))

NextRecreate ==
  \/ InitDb
  \/ GetMonths
  \/ \E ym \in {Feb24, NoneYm} : GetBills(ym)
  \/ \E ym \in {Feb24, NoneYm} : GetMoneyIns(ym)
  \/ \E ym \in RecreateYms : AddMonthAgain(ym)
  \/ \E ym \in {Feb24, NoneYm} : DeleteMonth(ym)
  \/ \E ym \in {Jan24, Feb24} : AddBillAgain(ym, JStr("Rent"), JNum(1200), "", FALSE)
  \/ UpdateBill(1, JStr("Rent"), JNum(1200), "", TRUE)
  \/ \E ym \in {Jan24, Feb24} : AddMoneyInAgain(ym, JStr("Rent"), JNum(1200), "")
  \/ UpdateMoneyIn(1, JStr("Rent"), JNumStr(75), "")
  \/ \E ym \in RecreateYms : UpdateBalance(ym, JNum(-1200))
  \/ UnknownPost
  \/ \E seg \in {<<>>, <<1>>} : DeleteBill(seg)
  \/ \E seg \in {<<>>, <<1>>} : DeleteMoneyIn(seg)
  \/ UnknownDelete

SpecRecreate == Init /\ [][NextRecreate]_vars

----------------------------------------------------------------------------
(* C18 *)

\* a month was deleted: an identifier was issued to a month no longer stored
SomeMonthDeleted == seq.months > Cardinality(months)

\* C18: when 2024-02 is created again after it was deleted, the new row has
\* an identifier never issued before, owns no bill or money-in stored before
\* the step, and opens and closes with the closing balance the preceding
\* month holds at that moment (0 if no preceding month is stored).
C18_Recreate ==
  [][\A r \in NewMonths :
       (r.ym = Feb24 /\ SomeMonthDeleted) =>
         /\ r.id > seq.months
         /\ \A e \in bills' : e.month_id = r.id => e.id > seq.bills
         /\ \A e \in money_ins' : e.month_id = r.id => e.id > seq.money_ins
         /\ \A p \in months :
              ChronoSucc(p.ym, r.ym) =>
                /\ r.opening_balance = p.closing_balance
                /\ r.closing_balance = p.closing_balance
         /\ (\A p \in months : ~ChronoSucc(p.ym, r.ym)) =>
              r.opening_balance = 0 /\ r.closing_balance = 0]_vars

====
